---- MODULE Spec2Model ----
(***************************************************************************)
(* A model of the durable task scheduler: the SQLite store (tasks and      *)
(* executions), TaskService (create_task, delete_task, process_task) and   *)
(* the dispatcher loop run_scheduler, with the wake-up channel, the        *)
(* cancellation token, a wall clock, injected storage failures and process *)
(* restarts.                                                               *)
(*                                                                         *)
(* Option<T> is a sequence of length 0 (None) or 1 (Some).  A task id is   *)
(* the row's position in insertion order (a fresh Uuid per row).  Time is  *)
(* in seconds.                                                             *)
(***************************************************************************)
EXTENDS Integers, Sequences, FiniteSets

\* ---------------------------------------------------------------- bounds
MaxTasks == 2        \* rows create_task may insert
MaxTicks == 1        \* clock advances explored
MaxTrigger == 1      \* a request's trigger_at is one of 0..MaxTrigger
MaxInterval == 1     \* largest interval_seconds requested
ChanCap == 1         \* capacity of the wake-up channel (mpsc::channel(n))
LongTicks == 2       \* clock advances explored when recurring tasks are followed

\* ------------------------------------------------------ program constants
BackoffSecs == 5     \* sleep after a failed get_next_pending_task
IdleSecs == 3600     \* sleep when no task is pending

VARIABLES
    now,            \* Utc::now()
    ticks,          \* clock advances so far (bounds the exploration)
    tasks,          \* table tasks: sequence of rows, id = index
    executions,     \* table executions: sequence of rows, insertion order
    chan,           \* signals pending in the wake-up channel
    cancelled,      \* the CancellationToken
    pc,             \* where run_scheduler / process_task stands
    next_task,      \* run_scheduler's snapshot: Option<Task>
    wake_at,        \* instant at which the armed tokio::time::sleep elapses
    outcome,        \* process_task's (output, status)
    exec,           \* process_task's Execution::new(..): Option<Execution>
    scheduler_tx,   \* process_task's open transaction: its view of the tables
    process_result, \* what process_task just returned to run_scheduler (until the loop head)
    unrecorded,     \* history: the last action run that no committed Execution
                    \* followed, and what cut it short: Option<[id, trigger_at, by]>
    notifying       \* a create_task call between its INSERT and its try_send:
                    \* Option<id of the row it inserted>

vars == <<now, ticks, tasks, executions, chan, cancelled, pc, next_task, wake_at,
          outcome, exec, scheduler_tx, process_result, unrecorded, notifying>>

time == <<now, ticks>>
store == <<tasks, executions>>
locals == <<next_task, wake_at, outcome, exec, scheduler_tx>>

\* ------------------------------------------------------------ domain/mod.rs
None == <<>>
Some(v) == <<v>>

Names == {"hello"}
Payloads == {None}
EmptyObject == "{}"

\* Task::new_once
NewOnce(id, name, trigger_at, payload) ==
    [id |-> id, name |-> name, task_type |-> "once", trigger_at |-> trigger_at,
     interval_seconds |-> None, payload |-> payload, deleted_at |-> None]

\* Task::new_interval
NewInterval(id, name, trigger_at, interval_seconds, payload) ==
    [id |-> id, name |-> name, task_type |-> "interval", trigger_at |-> trigger_at,
     interval_seconds |-> Some(interval_seconds), payload |-> payload,
     deleted_at |-> None]

\* Execution::new: executed_at is the clock at construction
ExecutionNew(task_id, output, status, clock) ==
    [task_id |-> task_id, executed_at |-> clock, output |-> output, status |-> status]

\* ----------------------------------------------------------- db/queries.rs
\* TaskRepository::create_task: INSERT INTO tasks
InsertTask(tbl, task) == Append(tbl, task)

\* TaskRepository::get_task: SELECT ... WHERE id = ?
GetTask(tbl, id) == IF id \in DOMAIN tbl THEN Some(tbl[id]) ELSE None

\* mutant of DeleteTaskWithExecutor: the update also resets trigger_at
DeleteTaskTouchingTrigger(tbl, id, clock) ==
    IF id \in DOMAIN tbl
    THEN [table |-> [tbl EXCEPT ![id].deleted_at = Some(clock),
                                ![id].trigger_at = clock],
          rows_affected |-> 1]
    ELSE [table |-> tbl, rows_affected |-> 0]

\* mutant of DeleteTaskWithExecutor: the update matches no row
DeleteTaskMatchingNothing(tbl, id, clock) == [table |-> tbl, rows_affected |-> 0]

\* UPDATE tasks SET deleted_at = ? WHERE id = ?  (table after, rows affected)
DeleteTaskWithExecutor(tbl, id, clock) ==
    IF id \in DOMAIN tbl
    THEN [table |-> [tbl EXCEPT ![id].deleted_at = Some(clock)], rows_affected |-> 1]
    ELSE [table |-> tbl, rows_affected |-> 0]

\* mutant of UpdateTriggerWithExecutor: the update matches no row
UpdateTriggerMatchingNothing(tbl, id, new_trigger_at) ==
    [table |-> tbl, rows_affected |-> 0]

\* mutant of UpdateTriggerWithExecutor: the update also clears deleted_at
UpdateTriggerReviving(tbl, id, new_trigger_at) ==
    IF id \in DOMAIN tbl
    THEN [table |-> [tbl EXCEPT ![id].trigger_at = new_trigger_at,
                                ![id].deleted_at = None],
          rows_affected |-> 1]
    ELSE [table |-> tbl, rows_affected |-> 0]

\* UPDATE tasks SET trigger_at = ? WHERE id = ?
UpdateTriggerWithExecutor(tbl, id, new_trigger_at) ==
    IF id \in DOMAIN tbl
    THEN [table |-> [tbl EXCEPT ![id].trigger_at = new_trigger_at], rows_affected |-> 1]
    ELSE [table |-> tbl, rows_affected |-> 0]

\* mutant of Pending: the query without its deleted_at filter
PendingUnfiltered(tbl) == DOMAIN tbl

\* WHERE deleted_at IS NULL
Pending(tbl) == {i \in DOMAIN tbl : tbl[i].deleted_at = None}

\* mutant of GetNextPendingTask: only rows with trigger_at <= now are candidates
GetNextPendingTaskDueOnly(tbl) ==
    LET due == {i \in Pending(tbl) : tbl[i].trigger_at <= now}
    IN IF due = {}
       THEN {None}
       ELSE {Some(tbl[i]) : i \in {j \in due :
                   \A k \in due : tbl[j].trigger_at <= tbl[k].trigger_at}}

\* mutant of GetNextPendingTask: ORDER BY trigger_at DESC
GetNextPendingTaskLatest(tbl) ==
    IF Pending(tbl) = {}
    THEN {None}
    ELSE {Some(tbl[i]) : i \in {j \in Pending(tbl) :
                \A k \in Pending(tbl) : tbl[j].trigger_at >= tbl[k].trigger_at}}

\* SELECT ... WHERE deleted_at IS NULL ORDER BY trigger_at ASC LIMIT 1:
\* the rows the query may return (rows with equal trigger_at in any order)
GetNextPendingTask(tbl) ==
    IF Pending(tbl) = {}
    THEN {None}
    ELSE {Some(tbl[i]) : i \in {j \in Pending(tbl) :
                \A k \in Pending(tbl) : tbl[j].trigger_at <= tbl[k].trigger_at}}

\* ---------------------------------------------------------- service/mod.rs
\* the requests create_task is given
Requests ==
    [name : Names,
     task_type : {"once", "interval", "cron"},
     trigger_at : 0..MaxTrigger,
     interval_seconds : {None} \cup {Some(k) : k \in 0..MaxInterval},
     payload : Payloads]

\* mutant of Validate: an interval of zero seconds is accepted
ValidateZeroInterval(req) ==
    IF req.task_type \notin {"once", "interval"}
    THEN "Invalid task_type. Use 'once' or 'interval'"
    ELSE IF req.task_type = "interval" /\ req.interval_seconds # None
                                      /\ req.interval_seconds[1] < 0
    THEN "interval_seconds must be at least 1 second"
    ELSE IF req.task_type = "interval" /\ req.interval_seconds = None
    THEN "interval_seconds is required for interval tasks"
    ELSE ""

\* create_task's validation: "" when the request is valid
Validate(req) ==
    IF req.task_type \notin {"once", "interval"}
    THEN "Invalid task_type. Use 'once' or 'interval'"
    ELSE IF req.task_type = "interval" /\ req.interval_seconds # None
                                      /\ req.interval_seconds[1] < 1
    THEN "interval_seconds must be at least 1 second"
    ELSE IF req.task_type = "interval" /\ req.interval_seconds = None
    THEN "interval_seconds is required for interval tasks"
    ELSE ""

\* req.payload.unwrap_or(json!({}))
PayloadOrDefault(p) == IF p = None THEN EmptyObject ELSE p[1]

\* mutant of TaskOf: a once task keeps the interval_seconds of its request
TaskOfKeepingInterval(id, req) ==
    [id |-> id, name |-> req.name, task_type |-> req.task_type,
     trigger_at |-> req.trigger_at, interval_seconds |-> req.interval_seconds,
     payload |-> PayloadOrDefault(req.payload), deleted_at |-> None]

\* create_task's "Map DTO to Domain Entity"
TaskOf(id, req) ==
    IF req.task_type = "once"
    THEN NewOnce(id, req.name, req.trigger_at, PayloadOrDefault(req.payload))
    ELSE NewInterval(id, req.name, req.trigger_at, req.interval_seconds[1],
                     PayloadOrDefault(req.payload))

\* mutant of TrySend: the send ignores the channel's capacity
TrySendUnbounded(c, receiver_alive) == IF receiver_alive THEN c + 1 ELSE c

\* mutant of TrySend: create_task's signal never reaches the channel
TrySendLost(c, receiver_alive) == c

\* scheduler_tx.try_send(()): dropped when the channel is full or the receiver is gone
TrySend(c, receiver_alive) == IF receiver_alive /\ c < ChanCap THEN c + 1 ELSE c

\* process_task's match on execute_logic's result
Outcome(res) ==
    IF res = "Ok"
    THEN [output |-> "response", status |-> "success"]
    ELSE [output |-> "error", status |-> "failure"]

NoOutcome == [output |-> "", status |-> ""]
NoTx == [open |-> FALSE, wrote |-> FALSE, tasks |-> <<>>, executions |-> <<>>]
NoRet == [kind |-> "", at |-> ""]

\* a transaction that has written holds SQLite's write lock until it ends
WriteLocked == scheduler_tx.wrote

\* -------------------------------------------------------- scheduler/mod.rs
\* mutant of IsDue: every fetched task counts as due
IsDueAlways(task, clock) == TRUE

\* task.trigger_at <= now
IsDue(task, clock) == task.trigger_at <= clock

\* run_scheduler's sleep_duration
SleepDuration(nt, clock) ==
    IF nt = None THEN IdleSecs
    ELSE IF IsDue(nt[1], clock) THEN 0 ELSE nt[1].trigger_at - clock

Init ==
    /\ now = 0
    /\ ticks = 0
    /\ tasks = <<>>
    /\ executions = <<>>
    /\ chan = 0
    /\ cancelled = FALSE
    /\ pc = "poll"
    /\ next_task = None
    /\ wake_at = 0
    /\ outcome = NoOutcome
    /\ exec = None
    /\ scheduler_tx = NoTx
    /\ process_result = NoRet
    /\ unrecorded = None
    /\ notifying = None

\* ------------------------------------------------------------ the API side
\* delete_task's result from the rows the UPDATE affected
DeleteResult(rows_affected) == IF rows_affected = 0 THEN "NotFound" ELSE "Ok"

\* TaskService::create_task returning Err(ValidationError): nothing is written or sent
CreateTaskInvalid(req) ==
    /\ Len(tasks) < MaxTasks
    /\ Validate(req) # ""
    /\ UNCHANGED vars

\* TaskService::create_task returning Ok(task.id)
CreateTaskOk(req) ==
    /\ Validate(req) = ""
    /\ Len(tasks) < MaxTasks
    /\ ~WriteLocked
    /\ tasks' = InsertTask(tasks, TaskOf(Len(tasks) + 1, req))
    /\ chan' = TrySend(chan, pc # "stopped")
    /\ UNCHANGED <<time, executions, cancelled, pc, locals, process_result, unrecorded, notifying>>

\* mutant of DeleteTaskOk: the delete also removes the task's executions
DeleteTaskCascading(id) ==
    /\ ~WriteLocked
    /\ LET r == DeleteTaskWithExecutor(tasks, id, now)
       IN /\ DeleteResult(r.rows_affected) = "Ok"
          /\ tasks' = r.table
    /\ executions' = SelectSeq(executions, LAMBDA e : e.task_id # id)
    /\ UNCHANGED <<time, chan, cancelled, pc, locals, process_result,
                   unrecorded, notifying>>

\* TaskService::delete_task returning Ok(())
DeleteTaskOk(id) ==
    /\ ~WriteLocked
    /\ LET r == DeleteTaskWithExecutor(tasks, id, now)
       IN /\ DeleteResult(r.rows_affected) = "Ok"
          /\ tasks' = r.table
    /\ UNCHANGED <<time, executions, chan, cancelled, pc, locals, process_result,
                   unrecorded, notifying>>

\* TaskService::delete_task returning Err(NotFound)
DeleteTaskNotFound(id) ==
    /\ ~WriteLocked
    /\ LET r == DeleteTaskWithExecutor(tasks, id, now)
       IN /\ DeleteResult(r.rows_affected) = "NotFound"
          /\ tasks' = r.table
    /\ UNCHANGED <<time, executions, chan, cancelled, pc, locals, process_result,
                   unrecorded, notifying>>

\* ------------------------------------------------------------ run_scheduler
\* what run_scheduler holds between two iterations
Idle ==
    /\ next_task' = None
    /\ wake_at' = 0
    /\ outcome' = NoOutcome
    /\ exec' = None
    /\ scheduler_tx' = NoTx

\* loop head: get_next_pending_task succeeded, sleep_duration computed, select entered
Poll ==
    /\ pc = "poll"
    /\ \E nt \in GetNextPendingTask(tasks) :
          /\ next_task' = nt
          /\ wake_at' = now + SleepDuration(nt, now)
    /\ pc' = "select"
    /\ process_result' = NoRet
    /\ UNCHANGED <<time, store, chan, cancelled, outcome, exec, scheduler_tx, unrecorded, notifying>>

\* mutant of PollError: a failed get_next_pending_task ends the loop
PollErrorExits ==
    /\ pc = "poll"
    /\ pc' = "stopped"
    /\ process_result' = NoRet
    /\ UNCHANGED <<time, store, chan, cancelled, next_task, wake_at, outcome, exec,
                   scheduler_tx, unrecorded, notifying>>

\* loop head: get_next_pending_task failed; sleep 5 s outside the select, then continue
PollError ==
    /\ pc = "poll"
    /\ wake_at' = now + BackoffSecs
    /\ pc' = "backoff"
    /\ process_result' = NoRet
    /\ UNCHANGED <<time, store, chan, cancelled, next_task, outcome, exec,
                   scheduler_tx, unrecorded, notifying>>

BackoffElapsed ==
    /\ pc = "backoff"
    /\ now >= wake_at
    /\ pc' = "poll"
    /\ wake_at' = 0
    /\ UNCHANGED <<time, store, chan, cancelled, next_task, outcome, exec,
                   scheduler_tx, process_result, unrecorded, notifying>>

\* select branch: token.cancelled()
SelectCancelled ==
    /\ pc = "select"
    /\ cancelled
    /\ pc' = "stopped"
    /\ Idle
    /\ UNCHANGED <<time, store, chan, cancelled, process_result, unrecorded, notifying>>

\* mutant of SelectTimer: the row is read again and a deleted task is skipped
SelectTimerRereading ==
    /\ pc = "select"
    /\ now >= wake_at
    /\ IF next_task # None /\ IsDue(next_task[1], now)
                           /\ tasks[next_task[1].id].deleted_at = None
       THEN /\ pc' = "execute"
            /\ UNCHANGED locals
       ELSE /\ pc' = "poll"
            /\ Idle
    /\ UNCHANGED <<time, store, chan, cancelled, process_result, unrecorded, notifying>>

\* select branch: the sleep elapsed; process_task is entered on a due snapshot
SelectTimer ==
    /\ pc = "select"
    /\ now >= wake_at
    /\ IF next_task # None /\ IsDue(next_task[1], now)
       THEN /\ pc' = "execute"
            /\ UNCHANGED locals
       ELSE /\ pc' = "poll"
            /\ Idle
    /\ UNCHANGED <<time, store, chan, cancelled, process_result, unrecorded, notifying>>

\* mutant of SelectRecv: the signal is consumed without going back to the query
SelectRecvKeepsWaiting ==
    /\ pc = "select"
    /\ chan > 0
    /\ chan' = chan - 1
    /\ UNCHANGED <<time, store, cancelled, pc, locals, process_result, unrecorded,
                   notifying>>

\* select branch: rx.recv()
SelectRecv ==
    /\ pc = "select"
    /\ chan > 0
    /\ chan' = chan - 1
    /\ pc' = "poll"
    /\ Idle
    /\ UNCHANGED <<time, store, cancelled, process_result, unrecorded, notifying>>

\* ------------------------------------------------------------- process_task
\* execute_logic(&task) returned
ExecuteLogic ==
    /\ pc = "execute"
    /\ \E res \in {"Ok", "Err"} : outcome' = Outcome(res)
    /\ pc' = "begin"
    /\ UNCHANGED <<time, store, chan, cancelled, next_task, wake_at, exec,
                   scheduler_tx, process_result, unrecorded, notifying>>

\* db_pool.begin() succeeded; Execution::new reads the clock
Begin ==
    /\ pc = "begin"
    /\ scheduler_tx' = [NoTx EXCEPT !.open = TRUE]
    /\ exec' = Some(ExecutionNew(next_task[1].id, outcome.output, outcome.status, now))
    /\ pc' = "insert"
    /\ UNCHANGED <<time, store, chan, cancelled, next_task, wake_at, outcome,
                   process_result, unrecorded, notifying>>

\* mutant of InsertExecution: the INSERT runs on the pool, outside the transaction
InsertExecutionOnPool ==
    /\ pc = "insert"
    /\ executions' = Append(executions, exec[1])
    /\ scheduler_tx' = [open |-> TRUE, wrote |-> TRUE, tasks |-> tasks,
                        executions |-> Append(executions, exec[1])]
    /\ pc' = "mutate"
    /\ UNCHANGED <<time, tasks, chan, cancelled, next_task, wake_at, outcome, exec,
                   process_result, unrecorded, notifying>>

\* INSERT INTO executions inside the transaction
InsertExecution ==
    /\ pc = "insert"
    /\ IF exec[1].task_id \in DOMAIN tasks
       THEN /\ scheduler_tx' = [open |-> TRUE, wrote |-> TRUE, tasks |-> tasks,
                                executions |-> Append(executions, exec[1])]
            /\ pc' = "mutate"
            /\ UNCHANGED <<next_task, wake_at, outcome, exec, process_result>>
       ELSE \* foreign-key violation: rollback, Ok(())
            /\ process_result' = [kind |-> "Ok", at |-> "insert"]
            /\ pc' = "poll"
            /\ Idle
    /\ UNCHANGED <<time, store, chan, cancelled, unrecorded, notifying>>

\* mutant of Mutated: a Once task is left live
MutatedWithoutRetire(tbl, task, clk) ==
    IF task.task_type = "interval" /\ task.interval_seconds # None
    THEN UpdateTriggerWithExecutor(tbl, task.id, clk + task.interval_seconds[1]).table
    ELSE tbl

\* mutant of Mutated: the next trigger is the previous trigger plus the interval
MutatedCumulative(tbl, task, clk) ==
    IF task.task_type = "once"
    THEN DeleteTaskWithExecutor(tbl, task.id, clk).table
    ELSE IF task.interval_seconds # None
         THEN UpdateTriggerWithExecutor(tbl, task.id,
                         task.trigger_at + task.interval_seconds[1]).table
         ELSE tbl

\* the table tasks after process_task's retire / reschedule statement
Mutated(tbl, task, clk) ==
    IF task.task_type = "once"
    THEN DeleteTaskWithExecutor(tbl, task.id, clk).table
    ELSE IF task.interval_seconds # None
         THEN UpdateTriggerWithExecutor(tbl, task.id,
                                        clk + task.interval_seconds[1]).table
         ELSE tbl

\* delete_task_with_executor / update_trigger_with_executor inside the transaction
Mutate ==
    /\ pc = "mutate"
    /\ scheduler_tx' = [scheduler_tx EXCEPT
                           !.tasks = Mutated(scheduler_tx.tasks, next_task[1], now)]
    /\ pc' = "commit"
    /\ UNCHANGED <<time, store, chan, cancelled, next_task, wake_at, outcome, exec,
                   process_result, unrecorded, notifying>>

\* mutant of Commit: a failed action makes process_task return an error
CommitFailureIsError ==
    /\ pc = "commit"
    /\ tasks' = scheduler_tx.tasks
    /\ executions' = scheduler_tx.executions
    /\ process_result' = [kind |-> IF outcome.status = "failure" THEN "Action" ELSE "Ok",
                          at |-> "commit"]
    /\ pc' = "poll"
    /\ Idle
    /\ unrecorded' = None
    /\ UNCHANGED <<time, chan, cancelled, notifying>>

\* scheduler_tx.commit() succeeded
Commit ==
    /\ pc = "commit"
    /\ tasks' = scheduler_tx.tasks
    /\ executions' = scheduler_tx.executions
    /\ process_result' = [kind |-> "Ok", at |-> "commit"]
    /\ pc' = "poll"
    /\ Idle
    /\ unrecorded' = None
    /\ UNCHANGED <<time, chan, cancelled, notifying>>

\* the action ran for this snapshot and no Execution of it was committed
Unrecorded(task, by) == Some([id |-> task.id, trigger_at |-> task.trigger_at, by |-> by])

\* begin, the insert, the update or the commit failed: `?` returns Err(Database)
\* and the dropped transaction rolls back
ProcessTaskError ==
    /\ pc \in {"begin", "insert", "mutate", "commit"}
    /\ process_result' = [kind |-> "Database", at |-> pc]
    /\ unrecorded' = Unrecorded(next_task[1], "error")
    /\ pc' = "poll"
    /\ Idle
    /\ UNCHANGED <<time, store, chan, cancelled, notifying>>

\* ---------------------------------------------------------- the environment
\* the instants the clock may jump to: the next second, or the armed timer
NextInstants ==
    {now + 1} \cup (IF pc \in {"select", "backoff"} /\ wake_at > now
                    THEN {wake_at} ELSE {})

\* time passes
Tick ==
    /\ ticks < MaxTicks
    /\ \E t \in NextInstants : now' = t
    /\ ticks' = ticks + 1
    /\ UNCHANGED <<store, chan, cancelled, pc, locals, process_result, unrecorded, notifying>>

\* shutdown_signal: token.cancel()
Cancel ==
    /\ ~cancelled
    /\ cancelled' = TRUE
    /\ UNCHANGED <<time, store, chan, pc, locals, process_result, unrecorded, notifying>>

\* the process dies and main starts again on the same database: the tables stay,
\* an open transaction is rolled back, channel, token and scheduler are new
Crash ==
    /\ unrecorded' = IF pc \in {"begin", "insert", "mutate", "commit"}
                      THEN Unrecorded(next_task[1], "crash") ELSE unrecorded
    /\ pc' = "poll"
    /\ Idle
    /\ chan' = 0
    /\ cancelled' = FALSE
    /\ process_result' = NoRet
    /\ notifying' = None
    /\ UNCHANGED <<time, store>>

Scheduler ==
    \/ Poll
    \/ PollError
    \/ BackoffElapsed
    \/ SelectCancelled
    \/ SelectTimer
    \/ SelectRecv
    \/ ExecuteLogic
    \/ Begin
    \/ InsertExecution
    \/ Mutate
    \/ Commit
    \/ ProcessTaskError

Api ==
    \/ \E req \in Requests : CreateTaskInvalid(req)
    \/ \E req \in Requests : CreateTaskOk(req)
    \/ \E id \in 1..MaxTasks : DeleteTaskOk(id)
    \/ \E id \in 1..MaxTasks : DeleteTaskNotFound(id)

Next ==
    \/ Api
    \/ Scheduler
    \/ Tick
    \/ Cancel
    \/ Crash

Spec == Init /\ [][Next]_vars

\* the scheduler's steps when every storage call succeeds
SchedulerLive ==
    \/ Poll
    \/ SelectCancelled
    \/ SelectTimer
    \/ SelectRecv
    \/ ExecuteLogic
    \/ Begin
    \/ InsertExecution
    \/ Mutate
    \/ Commit

LiveNext == Api \/ SchedulerLive \/ Tick \/ Cancel

\* the runtime keeps running the spawned scheduler task: a scheduler step that
\* stays possible is eventually taken
LiveSpec == Init /\ [][LiveNext]_vars /\ WF_vars(SchedulerLive)

\* --------------------------------------------------- the scheduler under shutdown
\* time passes beyond the instants the clock variable explores: the armed sleep
\* elapses (the clock reading itself stays at the last explored instant)
SleepElapses ==
    /\ ticks = MaxTicks
    /\ pc \in {"select", "backoff"}
    /\ wake_at > now
    /\ wake_at' = now
    /\ UNCHANGED <<time, store, chan, cancelled, pc, next_task, outcome, exec,
                   scheduler_tx, process_result, unrecorded, notifying>>

CancelNext ==
    \/ \E req \in Requests : CreateTaskOk(req)
    \/ Scheduler
    \/ Tick
    \/ SleepElapses
    \/ Cancel

\* the runtime keeps running the scheduler task, time keeps passing, and a
\* select that is entered again and again with the token cancelled takes its
\* cancellation branch at some point (tokio picks among ready branches at random)
CancelSpec ==
    /\ Init
    /\ [][CancelNext]_vars
    /\ WF_vars(Scheduler)
    /\ WF_vars(Tick)
    /\ WF_vars(SleepElapses)
    /\ SF_vars(SelectCancelled)

\* ------------------------------------------- create_task, statement by statement
\* the requests create_task is given, over a wider range of field values
WideRequests ==
    [name : {"hello", ""},
     task_type : {"once", "interval", "cron", "Once"},
     trigger_at : 0..MaxTrigger,
     interval_seconds : {None} \cup {Some(k) : k \in -1..MaxInterval},
     payload : {None, Some("{\"url\":\"x\"}")}]

\* mutant of CreateTaskInsert: the signal is sent before the row is inserted
CreateTaskSignalFirst(req) ==
    /\ Validate(req) = ""
    /\ Len(tasks) < MaxTasks
    /\ notifying = None
    /\ chan' = TrySend(chan, pc # "stopped")
    /\ notifying' = Some(Len(tasks) + 1)
    /\ UNCHANGED <<time, store, cancelled, pc, locals, process_result, unrecorded>>

\* create_task up to and including repo.create_task(&task).await?
CreateTaskInsert(req) ==
    /\ Validate(req) = ""
    /\ Len(tasks) < MaxTasks
    /\ ~WriteLocked
    /\ notifying = None
    /\ tasks' = InsertTask(tasks, TaskOf(Len(tasks) + 1, req))
    /\ notifying' = Some(Len(tasks) + 1)
    /\ UNCHANGED <<time, executions, chan, cancelled, pc, locals, process_result,
                   unrecorded>>

\* create_task from scheduler_tx.try_send(()) to its return of Ok(task.id)
CreateTaskNotify ==
    /\ notifying # None
    /\ chan' = TrySend(chan, pc # "stopped")
    /\ notifying' = None
    /\ UNCHANGED <<time, store, cancelled, pc, locals, process_result, unrecorded>>

\* the API, with create_task taken statement by statement, beside a scheduler
\* that only queries and waits
ApiNext ==
    \/ \E req \in WideRequests : CreateTaskInvalid(req)
    \/ \E req \in WideRequests : CreateTaskInsert(req)
    \/ CreateTaskNotify
    \/ \E id \in 1..MaxTasks : DeleteTaskOk(id)
    \/ \E id \in 1..MaxTasks : DeleteTaskNotFound(id)
    \/ Poll
    \/ SelectRecv
    \/ Tick

ApiSpec == Init /\ [][ApiNext]_vars

\* ------------------------------------------------------------------ claims
ProcessPcs == {"execute", "begin", "insert", "mutate", "commit"}

IsSet(opt) == opt # None

\* the last row of a non-empty table
LastRow(tbl) == tbl[Len(tbl)]

\* tbl2 is tbl1 with exactly one row appended
OneRowAdded(tbl1, tbl2) ==
    /\ Len(tbl2) = Len(tbl1) + 1
    /\ SubSeq(tbl2, 1, Len(tbl1)) = tbl1

\* the step enters process_task (the action of the snapshot starts to run)
Dispatches == SelectTimer /\ pc' = "execute"

\* C1: process_task is atomic with respect to the store.  Every step the
\* scheduler takes inside process_task, whether it succeeds, fails (begin,
\* insert, retire / reschedule, commit) or is cut short, either leaves both
\* tables as they were, or makes visible at once exactly one new Execution row
\* of the processed task together with that task's mutation (deleted_at set for
\* a Once task, trigger_at moved for an Interval task).
C1_ProcessTaskAtomic ==
    [][(pc \in ProcessPcs /\ pc' # pc) =>
          \/ tasks' = tasks /\ executions' = executions
          \/ /\ OneRowAdded(executions, executions')
             /\ LET e == LastRow(executions')
                    before == tasks[e.task_id]
                    after == tasks'[e.task_id]
                IN /\ e.task_id = next_task[1].id
                   /\ IF before.task_type = "once"
                      THEN IsSet(after.deleted_at)
                           /\ after.deleted_at[1] >= e.executed_at
                      ELSE after.trigger_at # before.trigger_at
                           /\ after.trigger_at
                                >= e.executed_at + before.interval_seconds[1]]_vars

\* C1 witness: the retire / reschedule statement or the commit has just failed
\* and the Execution row inserted before it is not in the table
C1_Witness ==
    /\ process_result.kind = "Database"
    /\ process_result.at \in {"mutate", "commit"}
    /\ executions = <<>>
    /\ \E i \in DOMAIN tasks : tasks[i].deleted_at = None

\* C2: no task is dispatched early.  While process_task runs on a snapshot, the
\* row of that task in the store has trigger_at <= now.
C2_NoEarlyDispatch ==
    pc \in ProcessPcs =>
        /\ IsSet(next_task)
        /\ IsSet(GetTask(tasks, next_task[1].id))
        /\ tasks[next_task[1].id].trigger_at <= now

\* C2 witness: a task whose trigger lay in the future is dispatched at its trigger
C2_Witness ==
    /\ pc = "execute"
    /\ ticks > 0
    /\ next_task[1].trigger_at = now

\* C3: notification liveness.  With a working store and a scheduler task that
\* keeps being run, every live task that is due is eventually handed to
\* process_task (process_task is running on it), unless it is deleted first or
\* the scheduler is shut down;
\* this holds when the scheduler sleeps towards a later task or on the idle
\* fallback, and when create_task's signal is dropped on a full channel.
C3_NotificationLiveness ==
    \A id \in 1..MaxTasks :
        (id \in DOMAIN tasks /\ tasks[id].deleted_at = None
                             /\ tasks[id].trigger_at <= now)
            ~> \/ pc \in ProcessPcs /\ next_task[1].id = id
               \/ id \in DOMAIN tasks /\ IsSet(tasks[id].deleted_at)
               \/ pc = "stopped"

\* C3 witness: the scheduler sleeps on the idle fallback (its query found no
\* task), two due tasks have been created since, and the channel is full with
\* one signal, so the second signal was dropped
C3_Witness ==
    /\ pc = "select"
    /\ next_task = None
    /\ wake_at > now
    /\ chan = ChanCap
    /\ Len(tasks) > ChanCap
    /\ \A id \in DOMAIN tasks :
          tasks[id].deleted_at = None /\ tasks[id].trigger_at <= now

\* the rows of executions that belong to task id
ExecutionsOf(id) == {i \in DOMAIN executions : executions[i].task_id = id}

\* get_next_pending_task may return task id
Returned(tbl, id) == \E nt \in GetNextPendingTask(tbl) : IsSet(nt) /\ nt[1].id = id

\* C4 (as claimed): a crash at any point of process_task loses no work and
\* partially records nothing (the store is as it was before the crash), and
\* after the restart the action of a task is not run a second time for the
\* trigger it had already run for when the crash came.
C4_NoLossNoDoubleExecution ==
    [][/\ Crash => UNCHANGED store
       /\ Dispatches =>
            ~(/\ IsSet(unrecorded)
              /\ unrecorded[1].by = "crash"
              /\ unrecorded[1].id = next_task[1].id
              /\ unrecorded[1].trigger_at = next_task[1].trigger_at)]_vars

\* C5: retirement of a Once task.  The commit of process_task on a live Once
\* task adds exactly one Execution row of that task and sets its deleted_at;
\* and in every state a Once task that has an Execution row is retired and is
\* not a row get_next_pending_task can return.
C5_OnceRetirement ==
    /\ [](\A id \in DOMAIN tasks :
             (tasks[id].task_type = "once" /\ ExecutionsOf(id) # {}) =>
                 IsSet(tasks[id].deleted_at) /\ ~Returned(tasks, id))
    /\ [][(Commit /\ next_task[1].task_type = "once"
                  /\ tasks[next_task[1].id].deleted_at = None) =>
             /\ OneRowAdded(executions, executions')
             /\ LastRow(executions').task_id = next_task[1].id
             /\ IsSet(tasks'[next_task[1].id].deleted_at)
             /\ ~Returned(tasks', next_task[1].id)]_vars

\* C5 witness: a Once task has been processed and retired while another task is
\* still pending
C5_Witness ==
    \E id \in DOMAIN tasks :
        /\ tasks[id].task_type = "once"
        /\ ExecutionsOf(id) # {}
        /\ IsSet(tasks[id].deleted_at)
        /\ Pending(tasks) # {}

\* C6: rescheduling of an Interval task is relative to the clock.  The
\* reschedule statement stages trigger_at = (clock at that statement) + K, a
\* value strictly later than that clock reading and than the trigger the task
\* was dispatched for; the commit adds exactly one Execution row of the task,
\* publishes the staged trigger_at, which is at least executed_at + K, and
\* leaves deleted_at as it was, so a live task stays live.
C6_IntervalRescheduling ==
    [][/\ (Mutate /\ next_task[1].task_type = "interval") =>
            LET id == next_task[1].id
                K == next_task[1].interval_seconds[1]
                staged == scheduler_tx'.tasks[id]
            IN /\ staged.trigger_at = now + K
               /\ staged.trigger_at > now
               /\ staged.trigger_at > tasks[id].trigger_at
               /\ staged.deleted_at = tasks[id].deleted_at
       /\ (Commit /\ next_task[1].task_type = "interval") =>
            LET id == next_task[1].id
                K == next_task[1].interval_seconds[1]
            IN /\ OneRowAdded(executions, executions')
               /\ LastRow(executions').task_id = id
               /\ tasks'[id].trigger_at = scheduler_tx.tasks[id].trigger_at
               /\ tasks'[id].trigger_at >= LastRow(executions').executed_at + K
               /\ tasks'[id].trigger_at <= now + K
               /\ tasks'[id].trigger_at > tasks[id].trigger_at
               /\ tasks'[id].deleted_at = tasks[id].deleted_at]_vars

\* C6 witness: an overdue live Interval task has been processed; it has an
\* Execution row, is still live and its trigger is in the future
C6_Witness ==
    \E id \in DOMAIN tasks :
        /\ tasks[id].task_type = "interval"
        /\ ExecutionsOf(id) # {}
        /\ tasks[id].deleted_at = None
        /\ tasks[id].trigger_at > now
        /\ now > 0
        /\ process_result = [kind |-> "Ok", at |-> "commit"]

\* C7: a failure of the action is data.  When the action fails and storage
\* succeeds, process_task returns Ok, adds exactly one Execution row with
\* status failure and the error as output, and makes the transition it makes on
\* success (a Once task retired, an Interval task rescheduled); and the action
\* is never started for a task and trigger for which a failure row is stored.
C7_ActionFailureIsData ==
    [][/\ (Commit /\ outcome.status = "failure") =>
            LET id == next_task[1].id
            IN /\ process_result'.kind = "Ok"
               /\ OneRowAdded(executions, executions')
               /\ LastRow(executions') =
                      [task_id |-> id, executed_at |-> exec[1].executed_at,
                       output |-> "error", status |-> "failure"]
               /\ IF next_task[1].task_type = "once"
                  THEN IsSet(tasks'[id].deleted_at)
                  ELSE tasks'[id].trigger_at
                          >= exec[1].executed_at + next_task[1].interval_seconds[1]
       /\ Dispatches =>
            \A i \in ExecutionsOf(next_task[1].id) :
                executions[i].status = "failure" =>
                    executions[i].executed_at < next_task[1].trigger_at]_vars

\* C7 witness: process_task has just returned Ok after a failed action and the
\* failure row of a retired Once task is stored
C7_Witness ==
    /\ process_result = [kind |-> "Ok", at |-> "commit"]
    /\ \E i \in DOMAIN executions :
          /\ executions[i].status = "failure"
          /\ tasks[executions[i].task_id].task_type = "once"
          /\ IsSet(tasks[executions[i].task_id].deleted_at)

\* C8 (as claimed): a retired task is never dispatched.  process_task is not
\* entered for a task whose row has deleted_at set, and no Execution row is
\* added for a task whose row had deleted_at set before the step.
C8_RetiredNeverDispatched ==
    [][/\ Dispatches => tasks[next_task[1].id].deleted_at = None
       /\ executions' # executions =>
            tasks[LastRow(executions').task_id].deleted_at = None]_vars

\* C9: delete_task is a soft delete.  A delete_task that returns Ok leaves the
\* row in the table with deleted_at set; a row is never removed and its
\* deleted_at never cleared; and a row with deleted_at set is not a row
\* get_next_pending_task can return.
C9_SoftDelete ==
    /\ [](\A id \in DOMAIN tasks :
             IsSet(tasks[id].deleted_at) =>
                 IsSet(GetTask(tasks, id)) /\ ~Returned(tasks, id))
    /\ [][\A id \in DOMAIN tasks :
             /\ DeleteTaskOk(id) =>
                   /\ IsSet(GetTask(tasks', id))
                   /\ GetTask(tasks', id)[1].deleted_at = Some(now)
                   /\ ~Returned(tasks', id)
             /\ IsSet(tasks[id].deleted_at) =>
                   IsSet(GetTask(tasks', id)) /\ IsSet(tasks'[id].deleted_at)]_vars

\* C9 witness: a task deleted by delete_task (it has no Execution row) is still
\* in the table while another task is pending
C9_Witness ==
    \E id \in DOMAIN tasks :
        /\ IsSet(tasks[id].deleted_at)
        /\ ExecutionsOf(id) = {}
        /\ IsSet(GetTask(tasks, id))
        /\ Pending(tasks) # {}

\* C10 (as claimed): delete_task returns NotFound for an id that is not in the
\* table, Ok for the first delete of an existing task, and NotFound for a
\* delete of a task that delete_task has already deleted.
C10_DeleteIdempotence ==
    [][\A id \in 1..MaxTasks :
          /\ id \notin DOMAIN tasks => ~DeleteTaskOk(id)
          /\ (id \in DOMAIN tasks /\ tasks[id].deleted_at = None) =>
                ~DeleteTaskNotFound(id)
          /\ (id \in DOMAIN tasks /\ IsSet(tasks[id].deleted_at)
                                  /\ ExecutionsOf(id) = {}) =>
                ~DeleteTaskOk(id)]_vars

\* a request the validation has to refuse
Refused(req) ==
    \/ req.task_type \notin {"once", "interval"}
    \/ /\ req.task_type = "interval"
       /\ \/ req.interval_seconds = None
          \/ req.interval_seconds[1] <= 0

\* C11: create_task validation.  Every request with a task_type other than
\* "once" / "interval" is refused with the task_type message whatever its
\* interval_seconds (task_type is checked first), every "interval" request with
\* interval_seconds missing, zero or negative is refused with a validation
\* message; no step inserts a row for a refused request, every inserted row
\* comes from a request that is not refused, and a signal is only sent by a
\* call that has inserted its row.
C11_CreateValidation ==
    /\ [](\A req \in WideRequests :
             /\ Refused(req) <=> Validate(req) # ""
             /\ req.task_type \notin {"once", "interval"} =>
                    Validate(req) = "Invalid task_type. Use 'once' or 'interval'")
    /\ [][/\ \A req \in WideRequests :
                Refused(req) => ~CreateTaskInsert(req) /\ ~CreateTaskOk(req)
          /\ Len(tasks') > Len(tasks) =>
                /\ OneRowAdded(tasks, tasks')
                /\ \E req \in WideRequests :
                      /\ ~Refused(req)
                      /\ LastRow(tasks').task_type = req.task_type
                      /\ LastRow(tasks').task_type = "interval" =>
                            LastRow(tasks').interval_seconds = req.interval_seconds
          /\ chan' > chan => IsSet(notifying) /\ notifying[1] \in DOMAIN tasks]_vars

\* C11 witness: with a task stored and room for another, create_task refuses an
\* interval request of zero seconds: only its validation-error return can happen
C11_Witness ==
    /\ tasks # <<>>
    /\ Len(tasks) < MaxTasks
    /\ notifying = None
    /\ \E req \in WideRequests :
          /\ req.task_type = "interval"
          /\ req.interval_seconds = Some(0)
          /\ ENABLED CreateTaskInvalid(req)
          /\ ~ENABLED CreateTaskInsert(req)

\* C12: create round-trip.  get_task of the id a successful insert of request R
\* was given returns a task with R's name, task_type and trigger_at, R's
\* payload or the empty object when R has none, deleted_at unset, and
\* interval_seconds equal to R's for an interval task and absent for a once
\* task whatever R supplied; and in every state an interval task has
\* interval_seconds >= 1 and a once task has none.
C12_CreateRoundTrip ==
    /\ [](\A id \in DOMAIN tasks :
             /\ tasks[id].task_type \in {"once", "interval"}
             /\ tasks[id].task_type = "interval" =>
                    IsSet(tasks[id].interval_seconds)
                    /\ tasks[id].interval_seconds[1] >= 1
             /\ tasks[id].task_type = "once" => tasks[id].interval_seconds = None)
    /\ [][\A req \in WideRequests :
             CreateTaskInsert(req) =>
                LET got == GetTask(tasks', Len(tasks) + 1)
                IN /\ IsSet(got)
                   /\ got[1].id = Len(tasks) + 1
                   /\ got[1].name = req.name
                   /\ got[1].task_type = req.task_type
                   /\ got[1].trigger_at = req.trigger_at
                   /\ got[1].payload = IF req.payload = None THEN "{}"
                                                              ELSE req.payload[1]
                   /\ got[1].deleted_at = None
                   /\ got[1].interval_seconds =
                         IF req.task_type = "interval" THEN req.interval_seconds
                                                       ELSE None]_vars

\* C12 witness: create_task has just inserted a once task that carries a payload
\* of its own, beside an interval task stored with the empty object
C12_Witness ==
    /\ IsSet(notifying)
    /\ IsSet(GetTask(tasks, notifying[1]))
    /\ tasks[notifying[1]].task_type = "once"
    /\ tasks[notifying[1]].interval_seconds = None
    /\ tasks[notifying[1]].payload # EmptyObject
    /\ \E id \in DOMAIN tasks :
          /\ tasks[id].task_type = "interval"
          /\ tasks[id].interval_seconds = Some(MaxInterval)
          /\ tasks[id].payload = EmptyObject

\* get_next_pending_task on tbl takes row id into account: when the row is
\* live, the query returns a task and none with a later trigger_at
Observes(tbl, id) ==
    tbl[id].deleted_at = None =>
        \A nt \in GetNextPendingTask(tbl) :
            IsSet(nt) /\ nt[1].trigger_at <= tbl[id].trigger_at

\* C13: visibility before wake-up.  create_task sends its signal, and returns,
\* only after its row is in the table: the channel grows only in a step of a
\* call whose row get_task already returns and get_next_pending_task already
\* takes into account, and that step does not touch the table; from the insert
\* on, and so after the return and after the scheduler has received the signal,
\* every query of the scheduler takes the row into account.
C13_VisibleBeforeWakeUp ==
    /\ [](IsSet(notifying) =>
             IsSet(GetTask(tasks, notifying[1])) /\ Observes(tasks, notifying[1]))
    /\ [][/\ chan' > chan =>
                /\ IsSet(notifying)
                /\ IsSet(GetTask(tasks, notifying[1]))
                /\ Observes(tasks, notifying[1])
                /\ tasks' = tasks
          /\ CreateTaskNotify =>
                IsSet(GetTask(tasks', notifying[1])) /\ Observes(tasks', notifying[1])
          /\ Poll =>
                \A id \in DOMAIN tasks :
                    tasks[id].deleted_at = None =>
                        IsSet(next_task') /\ next_task'[1].trigger_at <= tasks[id].trigger_at
          /\ Len(tasks') >= Len(tasks)]_vars

\* C13 witness: the scheduler has queried between a create_task's insert and
\* its signal, and its snapshot is already the new task
C13_Witness ==
    /\ IsSet(notifying)
    /\ chan = 0
    /\ pc = "select"
    /\ IsSet(next_task)
    /\ next_task[1].id = notifying[1]

\* the rows of table tasks with deleted_at NULL
LiveTasks == {i \in DOMAIN tasks : tasks[i].deleted_at = None}

C15_FutureTasksNotPickedUp ==
    /\ (\A i \in LiveTasks : tasks[i].trigger_at > now) =>
           GetNextPendingTask(tasks) = {None}
    /\ (\E i \in LiveTasks : tasks[i].trigger_at <= now) =>
           \A nt \in GetNextPendingTask(tasks) :
               /\ IsSet(nt)
               /\ nt[1].trigger_at <= now
               /\ \A j \in LiveTasks : nt[1].trigger_at <= tasks[j].trigger_at

\* C16: retirement is permanent and rows are never destroyed.  No step of
\* create_task, delete_task or process_task (on a fresh or on a stale snapshot)
\* removes or renumbers a row of tasks, and no step turns a set deleted_at back
\* to NULL, in the table or in the view of the open transaction.
C16_RetirementPermanent ==
    [][/\ \A id \in DOMAIN tasks :
             /\ id \in DOMAIN tasks'
             /\ tasks'[id].id = tasks[id].id
             /\ IsSet(tasks[id].deleted_at) => IsSet(tasks'[id].deleted_at)
       /\ (scheduler_tx.wrote /\ scheduler_tx'.wrote) =>
             \A id \in DOMAIN scheduler_tx.tasks :
                 /\ id \in DOMAIN scheduler_tx'.tasks
                 /\ IsSet(scheduler_tx.tasks[id].deleted_at) =>
                        IsSet(scheduler_tx'.tasks[id].deleted_at)]_vars

\* C16 witness: process_task has committed on a stale snapshot of an Interval
\* task deleted before it ran: the task has an Execution later than its
\* deleted_at, a moved trigger_at, and is still deleted
C16_Witness ==
    \E id \in DOMAIN tasks :
        /\ tasks[id].task_type = "interval"
        /\ IsSet(tasks[id].deleted_at)
        /\ \E i \in ExecutionsOf(id) :
              /\ executions[i].executed_at > tasks[id].deleted_at[1]
              /\ tasks[id].trigger_at >= executions[i].executed_at + 1

\* C17 (as claimed): a failure of process_task is never retried automatically.
\* After process_task returned an error for a task and trigger, the scheduler
\* does not enter process_task again for that task and that trigger.
C17_ProcessFailureNotRetried ==
    [][Dispatches =>
          ~(/\ IsSet(unrecorded)
            /\ unrecorded[1].by = "error"
            /\ unrecorded[1].id = next_task[1].id
            /\ unrecorded[1].trigger_at = next_task[1].trigger_at)]_vars

\* C18: the scheduler stops only through cancellation.  The only step into
\* "stopped" is the select's cancellation branch with the token cancelled; a
\* failed get_next_pending_task leads to the 5 s backoff and from there back to
\* the query; an error of process_task and a commit that records a failed
\* action both lead back to the query.
C18_StopsOnlyOnCancellation ==
    [][/\ (pc # "stopped" /\ pc' = "stopped") =>
             pc = "select" /\ cancelled /\ SelectCancelled
       /\ PollError => pc' = "backoff" /\ wake_at' = now + BackoffSecs
       /\ BackoffElapsed => pc' = "poll"
       /\ ProcessTaskError => pc' = "poll"
       /\ (Commit /\ outcome.status = "failure") => pc' = "poll"]_vars

\* C18 witness: process_task returned an error, then get_next_pending_task
\* failed; the scheduler is in its backoff and the token is not cancelled
C18_Witness ==
    /\ pc = "backoff"
    /\ ~cancelled
    /\ IsSet(unrecorded)
    /\ unrecorded[1].by = "error"

\* C19 (as claimed): cancellation liveness.  Once the token is cancelled the
\* scheduler eventually reaches its stopped state, from wherever it stands:
\* sleeping, executing, backing off after a failed query even if the query
\* keeps failing, or with due tasks always at hand.
C19_CancellationLiveness == cancelled ~> (pc = "stopped")

\* C20 (as claimed): cancellation is honoured at the next iteration boundary.
\* When the token is cancelled while the scheduler stands at its loop head,
\* before it enters the select, no process_task is started from then on.
C20_CancelledBeforeSelect ==
    []((cancelled /\ pc = "poll") => [](pc \notin ProcessPcs))

\* C21: best-effort notification never affects creation.  The channel never
\* holds more than its capacity; a successful create_task persists its row
\* whatever the channel's state, adding one signal when the channel has room
\* and its receiver is alive and leaving the channel unchanged when it is full
\* or closed; and whether create_task can complete for a valid request does
\* not depend on the channel.
C21_BestEffortNotification ==
    /\ [](/\ chan \in 0..ChanCap
          /\ \A req \in Requests :
                (Validate(req) = "" /\ Len(tasks) < MaxTasks /\ ~WriteLocked)
                    => ENABLED CreateTaskOk(req))
    /\ [][\A req \in Requests :
             CreateTaskOk(req) =>
                /\ OneRowAdded(tasks, tasks')
                /\ IsSet(GetTask(tasks', Len(tasks) + 1))
                /\ chan' = IF chan < ChanCap /\ pc # "stopped" THEN chan + 1 ELSE chan]_vars

\* C21 witness: the scheduler idles on an empty snapshot while more tasks than
\* the channel can hold signals have been created since, all of them stored
C21_Witness ==
    /\ pc = "select"
    /\ next_task = None
    /\ chan = ChanCap
    /\ Len(tasks) = ChanCap + 1
    /\ executions = <<>>
    /\ LiveTasks = DOMAIN tasks

\* C22: executions are append-only and written only by process_task.  The
\* table executions changes only in the commit of process_task, which appends
\* exactly one row and leaves the rows before it as they were; and in every
\* state the task_id of every Execution is the id of a row of tasks.
C22_ExecutionsAppendOnly ==
    /\ [](\A i \in DOMAIN executions : IsSet(GetTask(tasks, executions[i].task_id)))
    /\ [][/\ executions' # executions =>
                /\ Commit
                /\ OneRowAdded(executions, executions')
                /\ LastRow(executions').task_id = next_task[1].id
          /\ \A i \in DOMAIN executions :
                i \in DOMAIN executions' /\ executions'[i] = executions[i]]_vars

\* C22 witness: a task that has an Execution was deleted by delete_task
\* afterwards, and the Execution is still stored
C22_Witness ==
    \E id \in DOMAIN tasks :
        /\ tasks[id].task_type = "interval"
        /\ IsSet(tasks[id].deleted_at)
        /\ \E i \in ExecutionsOf(id) :
              /\ executions[i].executed_at < tasks[id].deleted_at[1]
              /\ tasks[id].trigger_at > executions[i].executed_at

\* C23 (as claimed): dispatch follows trigger order.  Whenever the scheduler
\* enters process_task on its snapshot, no live task of the table has a
\* trigger_at strictly earlier than the snapshot's.
C23_DispatchInTriggerOrder ==
    [][Dispatches =>
          \A j \in LiveTasks : tasks[j].trigger_at >= next_task[1].trigger_at]_vars

C25_EveryWaitInterruptible ==
    (pc \in {"select", "backoff"} /\ wake_at > now) =>
        /\ cancelled => ENABLED SelectCancelled
        /\ chan > 0 => ENABLED SelectRecv

\* C26 (as claimed): the scheduler never spins.  In no behaviour does the
\* scheduler keep querying for ever while, from some point on, no time passes,
\* no sleep elapses, no signal is consumed and no process_task commits.
C26_NeverSpins ==
    <>[][~(Tick \/ SleepElapses \/ SelectRecv \/ Commit)]_vars => <>[][~Poll]_vars

\* C27 (as claimed): soft delete is idempotent in effect.  Applied to a row
\* whose deleted_at is already set, the soft-delete statement leaves the table
\* as it is (the first timestamp is kept) and reports 0 rows affected.
C27_SoftDeleteIdempotent ==
    \A id \in DOMAIN tasks :
        IsSet(tasks[id].deleted_at) =>
            \A clock \in now..(now + 1) :
                /\ DeleteTaskWithExecutor(tasks, id, clock).table = tasks
                /\ DeleteTaskWithExecutor(tasks, id, clock).rows_affected = 0

\* row id of tbl2 is row id of tbl1 except, at most, for its deleted_at
SameButDeletedAt(tbl1, tbl2, id) ==
    tbl2[id] = [tbl1[id] EXCEPT !.deleted_at = tbl2[id].deleted_at]

\* row id of tbl2 is row id of tbl1 except, at most, for its trigger_at
SameButTriggerAt(tbl1, tbl2, id) ==
    tbl2[id] = [tbl1[id] EXCEPT !.trigger_at = tbl2[id].trigger_at]

\* C28: frame of task mutations.  The commit of process_task on T leaves every
\* other row of tasks as it was and changes of T's row only deleted_at when T
\* is a Once task and only trigger_at when T is an Interval task; delete_task
\* changes of the table only deleted_at of its row, and leaves the executions,
\* the channel and the scheduler alone.
C28_MutationFrame ==
    [][/\ Commit =>
            LET id == next_task[1].id
            IN /\ DOMAIN tasks' = DOMAIN tasks
               /\ \A j \in DOMAIN tasks : j # id => tasks'[j] = tasks[j]
               /\ IF tasks[id].task_type = "once"
                  THEN SameButDeletedAt(tasks, tasks', id)
                  ELSE SameButTriggerAt(tasks, tasks', id)
       /\ \A id \in DOMAIN tasks :
            (DeleteTaskOk(id) \/ DeleteTaskNotFound(id)) =>
               /\ DOMAIN tasks' = DOMAIN tasks
               /\ \A j \in DOMAIN tasks : j # id => tasks'[j] = tasks[j]
               /\ SameButDeletedAt(tasks, tasks', id)
               /\ UNCHANGED <<executions, chan, pc, next_task, wake_at>>]_vars

\* C28 witness: process_task has just rescheduled an Interval task and left it
\* live, beside another task that delete_task has deleted
C28_Witness ==
    /\ process_result = [kind |-> "Ok", at |-> "commit"]
    /\ Len(tasks) = 2
    /\ \E id \in DOMAIN tasks :
          /\ tasks[id].task_type = "interval"
          /\ tasks[id].deleted_at = None
          /\ LastRow(executions).task_id = id
          /\ \E j \in DOMAIN tasks :
                j # id /\ ExecutionsOf(j) = {} /\ IsSet(tasks[j].deleted_at)

\* C29: at most one Execution per Once task.  In every state the number of
\* Execution rows of any Once task is 0 or 1.
C29_OneExecutionPerOnceTask ==
    \A id \in DOMAIN tasks :
        tasks[id].task_type = "once" => Cardinality(ExecutionsOf(id)) <= 1

\* C29 witness: a Once task has its one Execution, committed by a process_task
\* that ran after an earlier attempt on the other task had failed in storage
C29_Witness ==
    /\ Len(tasks) = 2
    /\ \E id \in DOMAIN tasks :
          /\ tasks[id].task_type = "once"
          /\ Cardinality(ExecutionsOf(id)) = 1
          /\ IsSet(unrecorded)
          /\ unrecorded[1].by = "error"
          /\ unrecorded[1].id # id
          /\ tasks[unrecorded[1].id].task_type = "once"

\* the whole program with create_task taken statement by statement: the insert
\* and the signal of one call are two steps, and the scheduler, the clock, the
\* cancellation and a crash may come between them
WakeNext ==
    \/ \E req \in Requests : CreateTaskInvalid(req)
    \/ \E req \in Requests : CreateTaskInsert(req)
    \/ CreateTaskNotify
    \/ \E id \in 1..MaxTasks : DeleteTaskOk(id)
    \/ \E id \in 1..MaxTasks : DeleteTaskNotFound(id)
    \/ Scheduler
    \/ Tick
    \/ Cancel
    \/ Crash

WakeSpec == Init /\ [][WakeNext]_vars

\* live tasks, inserted by a create_task call that has returned, that the
\* snapshot the scheduler waits against does not account for: any such task
\* when the snapshot is none, those of strictly earlier trigger_at otherwise
Unaccounted ==
    {j \in LiveTasks :
        /\ notifying # Some(j)
        /\ \/ next_task = None
           \/ tasks[j].trigger_at < next_task[1].trigger_at}

\* C30: no lost wake-up.  Whenever the scheduler waits in its select against a
\* snapshot (a task, or none on the idle poll) and the store holds a live task,
\* inserted by a create_task call that has returned, with a trigger_at earlier
\* than the snapshot's (any live task when the snapshot is none), the channel
\* holds at least one pending signal.
C30_NoLostWakeUp ==
    (pc = "select" /\ Unaccounted # {}) => chan >= 1

\* C30 witness: the scheduler sleeps towards a task whose trigger is in the
\* future, a create_task that has returned has inserted a task that is due
\* now, and its signal is pending
C30_Witness ==
    /\ pc = "select"
    /\ IsSet(next_task)
    /\ wake_at > now
    /\ notifying = None
    /\ chan >= 1
    /\ \E j \in Unaccounted : tasks[j].trigger_at <= now

\* --------------------------------------------------- recurring tasks over time
\* time passes, over a longer stretch of the clock than Tick explores
LongTick ==
    /\ ticks < LongTicks
    /\ \E t \in NextInstants : now' = t
    /\ ticks' = ticks + 1
    /\ UNCHANGED <<store, chan, cancelled, pc, locals, process_result, unrecorded, notifying>>

\* the steps of run_scheduler and process_task while storage works and the
\* token is not cancelled
SchedulerRuns ==
    \/ Poll
    \/ SelectTimer
    \/ SelectRecv
    \/ ExecuteLogic
    \/ Begin
    \/ InsertExecution
    \/ Mutate
    \/ Commit

\* the API and the scheduler on a working store, while the process stays up
\* and is not shut down
SpacingNext ==
    \/ Api
    \/ SchedulerRuns
    \/ LongTick

SpacingSpec == Init /\ [][SpacingNext]_vars

\* C31: minimum spacing of recurring executions.  Any two Execution rows of an
\* Interval task with interval_seconds = K have executed_at timestamps at least
\* K apart, the later row being the later one in the table, however overdue the
\* task was when it was dispatched and however long its action or its
\* transaction took.
C31_MinimumSpacing ==
    \A i \in DOMAIN executions : \A j \in DOMAIN executions :
        (/\ i < j
         /\ executions[i].task_id = executions[j].task_id
         /\ tasks[executions[i].task_id].task_type = "interval") =>
            executions[j].executed_at
                >= executions[i].executed_at
                     + tasks[executions[i].task_id].interval_seconds[1]

\* C31 witness: an Interval task that was overdue at its first dispatch has two
\* Execution rows exactly its interval apart
C31_Witness ==
    \E i \in DOMAIN executions : \E j \in DOMAIN executions :
        /\ i < j
        /\ executions[i].task_id = executions[j].task_id
        /\ tasks[executions[i].task_id].task_type = "interval"
        /\ executions[i].executed_at > MaxTrigger
        /\ executions[j].executed_at
              = executions[i].executed_at
                  + tasks[executions[i].task_id].interval_seconds[1]

\* the same program with the runtime running the spawned scheduler task for
\* ever: a scheduler step that stays possible is eventually taken
StarveSpec == Init /\ [][SpacingNext]_vars /\ WF_vars(SchedulerRuns)

\* task id is live and its trigger_at has passed
LiveAndDue(id) ==
    /\ id \in DOMAIN tasks
    /\ tasks[id].deleted_at = None
    /\ tasks[id].trigger_at <= now

\* C32: no starvation among due tasks.  With a working store, a terminating
\* action and no cancellation, every live task whose trigger_at has passed is
\* eventually processed to its commit (a Once task is retired, an Interval task
\* has its trigger_at moved into the future) unless delete_task deletes it
\* first; the reschedule of an Interval task stages a trigger_at later than
\* that of every other task that is live and due at that moment, so the
\* recurring task is behind each of them in the next query; and the commit
\* leaves a live Interval task live with a trigger_at at most its interval
\* ahead of the clock, so that it becomes due again.
C32_NoStarvation ==
    /\ \A id \in 1..MaxTasks :
          LiveAndDue(id) ~>
              /\ id \in DOMAIN tasks
              /\ \/ IsSet(tasks[id].deleted_at)
                 \/ tasks[id].trigger_at > now /\ ExecutionsOf(id) # {}
    /\ [][/\ (Mutate /\ next_task[1].task_type = "interval") =>
                \A j \in DOMAIN tasks :
                    (j # next_task[1].id /\ LiveAndDue(j)) =>
                        scheduler_tx'.tasks[next_task[1].id].trigger_at
                            > tasks[j].trigger_at
          /\ (Commit /\ next_task[1].task_type = "interval") =>
                LET id == next_task[1].id
                IN /\ tasks'[id].deleted_at = tasks[id].deleted_at
                   /\ tasks'[id].trigger_at > tasks[id].trigger_at
                   /\ tasks'[id].trigger_at
                         <= now + tasks[id].interval_seconds[1]]_vars

\* C32 witness: an Interval task has run, then a Once task created beside it,
\* then the Interval task again, and the Interval task is still live
C32_Witness ==
    \E i \in DOMAIN executions : \E j \in DOMAIN executions :
        \E k \in DOMAIN executions :
            /\ i < j /\ j < k
            /\ executions[i].task_id = executions[k].task_id
            /\ executions[j].task_id # executions[i].task_id
            /\ tasks[executions[i].task_id].task_type = "interval"
            /\ tasks[executions[i].task_id].deleted_at = None
            /\ tasks[executions[j].task_id].task_type = "once"

====
